---- MODULE Spec2Model ----
(***************************************************************************)
(* Model of nerv/layouts.py: index_layout (directory index page) and       *)
(* vis_layout (histogram + scatter tabs built from a results table).       *)
(*                                                                         *)
(* File names are sequences of code points, compared the way Python        *)
(* compares str (code point by code point, a proper prefix is smaller).    *)
(* A results table is a sequence of rows [DatasetPipeline, Color, Result]. *)
(***************************************************************************)
EXTENDS Integers, Sequences, FiniteSets, TLC

\* ---------------------------------------------------------------- bounds
MaxNameLen == 2
MaxEntries == 3
MaxRows == 3

\* ------------------------------------------------------ program constants
Slash == 47
Sentinel == -1
RangeLower == -1000
RangePad == 1000

\* ------------------------------------------------------------ input sets
Chars == {97, 98}
\* what a stat of an entry may report: the index page stats files and
\* directories alike
Stats == {[isdir |-> TRUE, mtime |-> 1], [isdir |-> FALSE, mtime |-> 2]}
Pipelines == {"A", "B", "C"}
Colors == {"red", "blue"}
ResultValues == {-1, 0, 5000}

RECURSIVE SeqsUpTo(_, _)
SeqsUpTo(S, n) ==
    IF n = 0 THEN {<<>>}
    ELSE LET shorter == SeqsUpTo(S, n - 1)
         IN  shorter \cup {Append(s, x) : s \in shorter, x \in S}

Names == SeqsUpTo(Chars, MaxNameLen) \ {<<>>}

Rows == [DatasetPipeline : Pipelines, Color : Colors, Result : ResultValues]

Tables == SeqsUpTo(Rows, MaxRows)

VARIABLES
    pathOk,     \* the directory at path exists and is listable
    fs,         \* directory content: entry name -> [isdir, mtime]
    ipc,        \* index_layout: "start", "build", "done", "error"
    listed,     \* what os.listdir returned, in the order it returned it
    dirs,       \* sorted(listed)
    children,   \* the dcc.Link entries built so far by the comprehension
    container,  \* children of the returned dbc.Container
    df,         \* the table passed to vis_layout
    vpc,        \* vis_layout: "hist", "x", "y", "scatter", "tabs", "done", "error"
    hist_plot,  \* arguments of the histogram figure
    x_dropdown, \* [options, value] of dropdown "x"
    y_dropdown, \* [options, value] of dropdown "y"
    scatter_plot, \* arguments of the scatter figure
    tabs        \* labels of the tabs of the returned dbc.Tabs

ivars == <<pathOk, fs, ipc, listed, dirs, children, container>>
vvars == <<df, vpc, hist_plot, x_dropdown, y_dropdown, scatter_plot, tabs>>
vars == <<pathOk, fs, ipc, listed, dirs, children, container,
          df, vpc, hist_plot, x_dropdown, y_dropdown, scatter_plot, tabs>>

\* ===================================================== index_layout ====

\* Python str comparison: a < b
LexLess(a, b) ==
    \E i \in 1..(Len(b)) :
        /\ \A j \in 1..(i - 1) : j <= Len(a) /\ a[j] = b[j]
        /\ \/ i = Len(a) + 1
           \/ i <= Len(a) /\ a[i] < b[i]

\* insertion of x into an ascending list, after the elements not greater
RECURSIVE Insert(_, _)
Insert(x, s) ==
    IF s = <<>> THEN <<x>>
    ELSE IF LexLess(x, Head(s)) THEN <<x>> \o s
    ELSE <<Head(s)>> \o Insert(x, Tail(s))

RECURSIVE sortedFrom(_, _)
sortedFrom(s, acc) ==
    IF s = <<>> THEN acc ELSE sortedFrom(Tail(s), Insert(Head(s), acc))

sortedAsListed(s) == s

\* sorted(...): ascending, stable
sorted(s) == sortedFrom(s, <<>>)

\* the orders in which os.listdir may return the entries of a directory
Listings(S) ==
    {s \in [1..Cardinality(S) -> S] : \A i, j \in 1..Cardinality(S) : i # j => s[i] # s[j]}

HrefBare(d) == d

\* "/" + d
Href(d) == <<Slash>> \o d

\* dcc.Link([dbc.Card([html.H5(d), html.P("Last modified: " + ...)])], href=, id=)
Link(d, mtime) ==
    [id |-> d, href |-> Href(d), title |-> d, modified |-> mtime]

\* dirs = sorted([d for d in os.listdir(path)])
IndexListdir ==
    /\ ipc = "start"
    /\ IF pathOk
       THEN \E l \in Listings(DOMAIN fs) :
               /\ listed' = l
               /\ dirs' = sorted(l)
               /\ ipc' = "build"
       ELSE /\ ipc' = "error"
            /\ UNCHANGED <<listed, dirs>>
    /\ UNCHANGED <<pathOk, fs, children, container>>
    /\ UNCHANGED vvars

IndexEntrySkipMissing ==
    /\ ipc = "build"
    /\ Len(children) < Len(dirs)
    /\ LET d == dirs[Len(children) + 1]
       IN  IF d \in DOMAIN fs
           THEN /\ children' = Append(children, Link(d, fs[d].mtime))
                /\ UNCHANGED <<dirs, ipc>>
           ELSE /\ dirs' = SelectSeq(dirs, LAMBDA e : e # d)
                /\ UNCHANGED <<children, ipc>>
    /\ UNCHANGED <<pathOk, fs, listed, container>>
    /\ UNCHANGED vvars

\* one iteration of the comprehension: os.path.getmtime(os.path.join(path, d))
\* raises when the entry is gone, and the exception leaves index_layout
IndexEntry ==
    /\ ipc = "build"
    /\ Len(children) < Len(dirs)
    /\ LET d == dirs[Len(children) + 1]
       IN  IF d \in DOMAIN fs
           THEN /\ children' = Append(children, Link(d, fs[d].mtime))
                /\ ipc' = ipc
           ELSE /\ children' = <<>>
                /\ ipc' = "error"
    /\ UNCHANGED <<pathOk, fs, listed, dirs, container>>
    /\ UNCHANGED vvars

IndexReturnNonEmpty ==
    /\ ipc = "build"
    /\ Len(children) = Len(dirs)
    /\ IF dirs = <<>>
       THEN ipc' = "error" /\ UNCHANGED container
       ELSE ipc' = "done" /\ container' = children
    /\ UNCHANGED <<pathOk, fs, listed, dirs, children>>
    /\ UNCHANGED vvars

\* return dbc.Container([...])
IndexReturn ==
    /\ ipc = "build"
    /\ Len(children) = Len(dirs)
    /\ ipc' = "done"
    /\ container' = children
    /\ UNCHANGED <<pathOk, fs, listed, dirs, children>>
    /\ UNCHANGED vvars

\* another process removes an entry while index_layout runs
FsDelete ==
    /\ ipc = "build"
    /\ \E d \in DOMAIN fs : fs' = [e \in (DOMAIN fs) \ {d} |-> fs[e]]
    /\ UNCHANGED <<pathOk, ipc, listed, dirs, children, container>>
    /\ UNCHANGED vvars

VisIdle ==
    /\ df = <<>>
    /\ vpc = "idle"
    /\ hist_plot = [data |-> <<>>, color_discrete_map |-> <<>>, range |-> <<>>]
    /\ x_dropdown = [options |-> <<>>, value |-> ""]
    /\ y_dropdown = [options |-> <<>>, value |-> ""]
    /\ scatter_plot = [x |-> <<>>, y |-> <<>>, xaxis_title |-> "", yaxis_title |-> ""]
    /\ tabs = <<>>

InitIndex ==
    /\ pathOk \in BOOLEAN
    /\ \E S \in SUBSET Names :
          /\ Cardinality(S) <= MaxEntries
          /\ fs \in [S -> Stats]
    /\ ipc = "start"
    /\ listed = <<>>
    /\ dirs = <<>>
    /\ children = <<>>
    /\ container = <<>>
    /\ VisIdle

NextIndex == IndexListdir \/ IndexEntry \/ IndexReturn \/ FsDelete

SpecIndex == InitIndex /\ [][NextIndex]_vars

IndexIdle ==
    /\ pathOk = TRUE
    /\ fs = <<>>
    /\ ipc = "idle"
    /\ listed = <<>>
    /\ dirs = <<>>
    /\ children = <<>>
    /\ container = <<>>

\* ======================================================= vis_layout ====

NaN == "nan"

\* df["Dataset-Pipeline"], df["Color"], df["Result"]
DatasetPipelineColumn(t) == [i \in 1..Len(t) |-> t[i].DatasetPipeline]

ColorColumn(t) == [i \in 1..Len(t) |-> t[i].Color]

ResultColumn(t) == [i \in 1..Len(t) |-> t[i].Result]

Contains(s, x) == \E i \in 1..Len(s) : s[i] = x

RECURSIVE uniqueFrom(_, _)
uniqueFrom(s, acc) ==
    IF s = <<>> THEN acc
    ELSE uniqueFrom(Tail(s), IF Contains(acc, Head(s)) THEN acc ELSE Append(acc, Head(s)))

RECURSIVE uniqueKeepLast(_)
uniqueKeepLast(s) ==
    IF s = <<>> THEN <<>>
    ELSE IF Contains(Tail(s), Head(s)) THEN uniqueKeepLast(Tail(s))
    ELSE <<Head(s)>> \o uniqueKeepLast(Tail(s))

\* Series.unique().tolist(): the distinct values in order of first appearance
unique(s) == uniqueFrom(s, <<>>)

Min2(a, b) == IF a < b THEN a ELSE b

\* {k: v for k, v in zip(ks, vs)}: zip stops at the shorter list,
\* a later pair replaces an earlier one with the same key
zipDict(ks, vs) ==
    LET n == Min2(Len(ks), Len(vs))
        last(k) == CHOOSE i \in 1..n : ks[i] = k /\ \A j \in (i + 1)..n : ks[j] # k
    IN  [k \in {ks[i] : i \in 1..n} |-> vs[last(k)]]

\* color_discrete_map=...
ColorDiscreteMap(t) ==
    zipDict(unique(DatasetPipelineColumn(t)), unique(ColorColumn(t)))

HistDataUnfiltered(t) == t

\* df[df["Result"] != -1]
HistData(t) == SelectSeq(t, LAMBDA r : r.Result # Sentinel)

\* Series.max() / Series.min()
SeriesMax(s) == CHOOSE m \in {s[i] : i \in 1..Len(s)} : \A i \in 1..Len(s) : s[i] <= m

SeriesMin(s) == CHOOSE m \in {s[i] : i \in 1..Len(s)} : \A i \in 1..Len(s) : m <= s[i]

HistRangeDataMin(t) ==
    IF t = <<>> THEN <<NaN, NaN>>
    ELSE <<SeriesMin(ResultColumn(t)) - RangePad, SeriesMax(ResultColumn(t)) + RangePad>>

\* "range": [-1000, df["Result"].max() + 1000]; max() of an empty column is NaN
HistRange(t) ==
    IF t = <<>> THEN <<RangeLower, NaN>>
    ELSE <<RangeLower, SeriesMax(ResultColumn(t)) + RangePad>>

\* options=[{"label": k, "value": v} for k, v in zip(unique, unique)]
DropdownOptions(t) ==
    LET u == unique(DatasetPipelineColumn(t))
    IN  [i \in 1..Len(u) |-> [label |-> u[i], value |-> u[i]]]

\* df["Dataset-Pipeline"].unique().tolist()[0] and [-1]; the table has a row
FirstPipeline(t) == unique(DatasetPipelineColumn(t))[1]

LastPipeline(t) ==
    LET u == unique(DatasetPipelineColumn(t)) IN u[Len(u)]

\* df[df["Dataset-Pipeline"] == p]["Result"]
ResultsOf(t, p) ==
    ResultColumn(SelectSeq(t, LAMBDA r : r.DatasetPipeline = p))

\* x=df[df["Dataset-Pipeline"] == unique[0]]["Result"]
ScatterX(t) == ResultsOf(t, FirstPipeline(t))

ScatterYFirst(t) == ResultsOf(t, FirstPipeline(t))

\* y=df[df["Dataset-Pipeline"] == unique[-1]]["Result"]
ScatterY(t) == ResultsOf(t, LastPipeline(t))

\* hist_plot = dcc.Graph(id="histogram", figure=px.histogram(...).update_layout(...))
VisHist ==
    /\ vpc = "hist"
    /\ hist_plot' = [data |-> HistData(df),
                     color_discrete_map |-> ColorDiscreteMap(df),
                     range |-> HistRange(df)]
    /\ vpc' = "x"
    /\ UNCHANGED <<df, x_dropdown, y_dropdown, scatter_plot, tabs>>
    /\ UNCHANGED ivars

\* x_dropdown = dcc.Dropdown(id="x", ...); [0] of an empty list raises IndexError
VisXDropdown ==
    /\ vpc = "x"
    /\ IF df = <<>>
       THEN /\ vpc' = "error"
            /\ UNCHANGED x_dropdown
       ELSE /\ x_dropdown' = [options |-> DropdownOptions(df), value |-> FirstPipeline(df)]
            /\ vpc' = "y"
    /\ UNCHANGED <<df, hist_plot, y_dropdown, scatter_plot, tabs>>
    /\ UNCHANGED ivars

\* y_dropdown = dcc.Dropdown(id="y", ...)
VisYDropdown ==
    /\ vpc = "y"
    /\ y_dropdown' = [options |-> DropdownOptions(df), value |-> LastPipeline(df)]
    /\ vpc' = "scatter"
    /\ UNCHANGED <<df, hist_plot, x_dropdown, scatter_plot, tabs>>
    /\ UNCHANGED ivars

\* scatter_plot = dcc.Graph(id="scatter", figure=px.scatter(df, x=, y=).update_layout(...))
VisScatter ==
    /\ vpc = "scatter"
    /\ scatter_plot' = [x |-> ScatterX(df),
                        y |-> ScatterY(df),
                        xaxis_title |-> FirstPipeline(df),
                        yaxis_title |-> LastPipeline(df)]
    /\ vpc' = "tabs"
    /\ UNCHANGED <<df, hist_plot, x_dropdown, y_dropdown, tabs>>
    /\ UNCHANGED ivars

\* return dbc.Tabs([hist_tab, scatter_tab])
VisReturn ==
    /\ vpc = "tabs"
    /\ tabs' = <<"Distribution Plot", "Joint Plot">>
    /\ vpc' = "done"
    /\ UNCHANGED <<df, hist_plot, x_dropdown, y_dropdown, scatter_plot>>
    /\ UNCHANGED ivars

InitVis ==
    /\ IndexIdle
    /\ df \in Tables
    /\ vpc = "hist"
    /\ hist_plot = [data |-> <<>>, color_discrete_map |-> <<>>, range |-> <<>>]
    /\ x_dropdown = [options |-> <<>>, value |-> ""]
    /\ y_dropdown = [options |-> <<>>, value |-> ""]
    /\ scatter_plot = [x |-> <<>>, y |-> <<>>, xaxis_title |-> "", yaxis_title |-> ""]
    /\ tabs = <<>>

NextVis == VisHist \/ VisXDropdown \/ VisYDropdown \/ VisScatter \/ VisReturn

SpecVis == InitVis /\ [][NextVis]_vars

\* ============================================================ claims ====

PipelineSet == {df[i].DatasetPipeline : i \in 1..Len(df)}

\* index of the first row whose Dataset-Pipeline is k
FirstRow(k) ==
    CHOOSE i \in 1..Len(df) :
        /\ df[i].DatasetPipeline = k
        /\ \A j \in 1..(i - 1) : df[j].DatasetPipeline # k

Count(s, x) == Cardinality({i \in 1..Len(s) : s[i] = x})

RECURSIVE ResultsFrom(_, _)
ResultsFrom(i, p) ==
    IF i > Len(df) THEN <<>>
    ELSE IF df[i].DatasetPipeline = p
         THEN <<df[i].Result>> \o ResultsFrom(i + 1, p)
         ELSE ResultsFrom(i + 1, p)

RECURSIVE NameBefore(_, _)
NameBefore(a, b) ==
    IF b = <<>> THEN FALSE
    ELSE IF a = <<>> THEN TRUE
    ELSE IF Head(a) # Head(b) THEN Head(a) < Head(b)
    ELSE NameBefore(Tail(a), Tail(b))

HistBuilt == vpc \in {"x", "y", "scatter", "tabs", "done", "error"}

\* C1: once the histogram is built, every distinct Dataset-Pipeline value k
\* of the table is a key of the color mapping and is mapped to the Color of
\* the first row whose Dataset-Pipeline is k.
C1_FirstSeenColor ==
    HistBuilt =>
        \A k \in PipelineSet :
            /\ k \in DOMAIN hist_plot.color_discrete_map
            /\ hist_plot.color_discrete_map[k] = df[FirstRow(k)].Color

\* C2: a table with exactly one distinct Dataset-Pipeline value never makes
\* vis_layout return a tab container.
C2_SingleCategoryFails ==
    Cardinality(PipelineSet) = 1 => (vpc # "done" /\ tabs = <<>>)

\* C3: the entries returned by index_layout are in strictly ascending
\* lexicographic order of their names, and they are the listed names,
\* whatever order the listing had.
C3_SortedOutput ==
    ipc = "done" =>
        /\ \A i, j \in 1..Len(container) :
              i < j => NameBefore(container[i].id, container[j].id)
        /\ {container[i].id : i \in 1..Len(container)} = {listed[i] : i \in 1..Len(listed)}

C3_Witness ==
    /\ ipc = "done"
    /\ Len(listed) = 3
    /\ NameBefore(listed[3], listed[1])
    /\ NameBefore(listed[1], listed[2])
    /\ Len(container) = 3

\* C4: the histogram plots exactly the rows with Result # -1 (each such row
\* as often as the table has it, no Result = -1 row), while the scatter x
\* and y series hold every Result = -1 row of their category.
C4_HistogramFilter ==
    (vpc = "done") =>
        /\ \A r \in Rows :
              Count(hist_plot.data, r) = IF r.Result = -1 THEN 0 ELSE Count(df, r)
        /\ Count(scatter_plot.x, -1) =
              Cardinality({i \in 1..Len(df) :
                  df[i].DatasetPipeline = x_dropdown.value /\ df[i].Result = -1})
        /\ Count(scatter_plot.y, -1) =
              Cardinality({i \in 1..Len(df) :
                  df[i].DatasetPipeline = y_dropdown.value /\ df[i].Result = -1})

C4_Witness ==
    /\ vpc = "done"
    /\ Len(hist_plot.data) = 2
    /\ Len(df) = 3
    /\ Count(scatter_plot.x, -1) = 1
    /\ x_dropdown.value # y_dropdown.value

\* C5: for a table with a row, the histogram x-axis range is
\* [-1000, M + 1000], M the largest Result of the whole table, rows with
\* Result = -1 included; a largest Result of 5000 gives 6000.
C5_HistRange ==
    (HistBuilt /\ df # <<>>) =>
        /\ Len(hist_plot.range) = 2
        /\ hist_plot.range[1] = -1000
        /\ \E i \in 1..Len(df) : hist_plot.range[2] = df[i].Result + 1000
        /\ \A i \in 1..Len(df) : hist_plot.range[2] >= df[i].Result + 1000
        /\ (\E i \in 1..Len(df) : df[i].Result = 5000) => hist_plot.range[2] = 6000

C5_Witness ==
    /\ vpc = "done"
    /\ hist_plot.range = <<-1000, 6000>>
    /\ \E i \in 1..Len(df) : df[i].Result = -1
    /\ Len(hist_plot.data) < Len(df)

C5_WitnessAllSentinel ==
    /\ vpc = "done"
    /\ hist_plot.range = <<-1000, 999>>
    /\ hist_plot.data = <<>>

\* C6: with two or more distinct Dataset-Pipeline values, both dropdowns
\* offer the distinct values in order of first appearance, label equal to
\* value, x defaults to the first of them and y to the last.
C6_DropdownDefaults ==
    (vpc \in {"scatter", "tabs", "done"} /\ Cardinality(PipelineSet) >= 2) =>
        LET opts == x_dropdown.options
        IN  /\ y_dropdown.options = opts
            /\ Len(opts) = Cardinality(PipelineSet)
            /\ {opts[i].value : i \in 1..Len(opts)} = PipelineSet
            /\ \A i \in 1..Len(opts) : opts[i].label = opts[i].value
            /\ \A i, j \in 1..Len(opts) :
                  i < j => FirstRow(opts[i].value) < FirstRow(opts[j].value)
            /\ x_dropdown.value = df[1].DatasetPipeline
            /\ \A k \in PipelineSet : FirstRow(k) <= FirstRow(y_dropdown.value)
            /\ y_dropdown.value \in PipelineSet

C6_Witness ==
    /\ vpc = "done"
    /\ Len(x_dropdown.options) = 3
    /\ x_dropdown.value = "C"
    /\ y_dropdown.value = "B"
    /\ x_dropdown.options[2].value = "A"

C6_WitnessRepeat ==
    /\ vpc = "done"
    /\ Len(df) = 3
    /\ df[1].DatasetPipeline = df[3].DatasetPipeline
    /\ x_dropdown.value = "B"
    /\ y_dropdown.value = "A"

StatWillFail ==
    /\ ipc = "build"
    /\ Len(children) < Len(dirs)
    /\ dirs[Len(children) + 1] \notin DOMAIN fs

\* C8: a step of index_layout taken when the next entry to stat is gone ends
\* the call in an error with no container and no entry kept; a failed call
\* stays failed (no retry), and no entry is ever dropped from the work list.
C8_StatFailureFailsAll ==
    [][/\ (StatWillFail /\ fs' = fs) =>
              (ipc' = "error" /\ container' = <<>> /\ children' = <<>>)
       /\ ipc = "error" => (ipc' = "error" /\ container' = <<>>)
       /\ ipc = "build" => dirs' = dirs]_vars

C8_Witness ==
    /\ ipc = "error"
    /\ pathOk
    /\ Len(dirs) >= 2
    /\ dirs[1] \in DOMAIN fs
    /\ container = <<>>

\* C9: the returned container has one entry per listed name, directory or
\* not: as many entries as listed names, every entry still in the directory
\* among them, each with id d and link target "/" + d.
C9_OneEntryPerChild ==
    ipc = "done" =>
        /\ Len(container) = Len(listed)
        /\ \A i \in 1..Len(listed) : Count([j \in 1..Len(container) |-> container[j].id], listed[i]) = 1
        /\ \A d \in DOMAIN fs : \E i \in 1..Len(container) : container[i].id = d
        /\ \A i \in 1..Len(container) :
              /\ Len(container[i].href) = Len(container[i].id) + 1
              /\ container[i].href[1] = 47
              /\ \A j \in 1..Len(container[i].id) : container[i].href[j + 1] = container[i].id[j]

C9_Witness ==
    /\ ipc = "done"
    /\ Len(container) = 3
    /\ \E i \in 1..3 : container[i].id \in DOMAIN fs /\ ~fs[container[i].id].isdir
    /\ \E i \in 1..3 : container[i].id \in DOMAIN fs /\ fs[container[i].id].isdir

\* C10: with two or more distinct Dataset-Pipeline values, the scatter x
\* series is the Result of exactly the rows of the x dropdown's default
\* category, the y series that of the y dropdown's default category, and
\* the axis titles are those two defaults.
C10_ScatterMatchesDefaults ==
    (vpc \in {"tabs", "done"} /\ Cardinality(PipelineSet) >= 2) =>
        /\ scatter_plot.x = ResultsFrom(1, x_dropdown.value)
        /\ scatter_plot.y = ResultsFrom(1, y_dropdown.value)
        /\ scatter_plot.xaxis_title = x_dropdown.value
        /\ scatter_plot.yaxis_title = y_dropdown.value

C10_Witness ==
    /\ vpc = "done"
    /\ x_dropdown.value # y_dropdown.value
    /\ Len(scatter_plot.x) = 2
    /\ Len(scatter_plot.y) = 1
    /\ scatter_plot.x[1] # scatter_plot.x[2]

====
